---- MODULE Spec2Model ----
(***************************************************************************)
(* Model of the assessment-delivery state machine of voiceappdesktop       *)
(* (src/assessment_state_machine.py): AssessmentStateMachine, its          *)
(* ResponseTracker records, the asyncio.Event each tracker owns and the    *)
(* tasks suspended in wait_for_audio_complete.                             *)
(*                                                                         *)
(* An asyncio.Event is modelled by its flag.  The event of a tracker is    *)
(* the field audio_event of the tracker record.  A registration that       *)
(* overwrites response_trackers[id] constructs a new tracker and a new     *)
(* event; a task still suspended on the old event keeps the only           *)
(* reference to it, so the old event's flag moves into the record of the   *)
(* suspended call ("orphan_set" / "orphan_unset") and can never change     *)
(* again.  Suspended calls are kept as a bag: tasks have no identity.      *)
(*                                                                         *)
(* Under Spec the operations of AssessmentStateMachine may be called at    *)
(* any time with any response id, reason or summary drawn from the         *)
(* bounded sets below; SpecBytes and SpecWait drive it in protocol order.  *)
(* Response ids are non-empty strings, as the remote API assigns them (the *)
(* event handlers test an id for truth before they pass it on); NoId       *)
(* stands for None.                                                        *)
(*                                                                         *)
(* SpecScenario registers every response under a fresh id out of three and *)
(* follows the end-to-end scenario.  SpecRouter is the session: inbound    *)
(* events dispatched to the handlers of src/desktop/handlers one at a      *)
(* time, the response.done coroutine with its wait and drain sleeps, the   *)
(* messages received meanwhile, the outbound messages of each step and     *)
(* the background report task.  SpecRouterFair adds weak fairness of the   *)
(* coroutine's resumptions.  SpecPlayback feeds the audio delta handler    *)
(* short payloads of every length; SpecArguments feeds the function call   *)
(* handlers of the desktop and of the web bridge every shape of the        *)
(* trigger_assessment arguments.                                           *)
(***************************************************************************)
EXTENDS Integers, FiniteSets, Sequences, TLC

\* ------------------------------------------------------------------ bounds
MaxAudioBytes == 96000
\* cap of a tracker's audio_bytes_received

MaxWaiters == 2
\* calls of wait_for_audio_complete suspended at the same time

MaxRequests == 2
\* cap of the goodbye requests a session sends

MaxQueued == 1
\* messages held in the websocket's receive buffer while a handler runs

MaxTurns == 1
\* turns of the conversation history

MaxPayload == 7
\* bytes of one decoded audio payload under SpecPlayback

\* ------------------------------------------------------------- input sets
ResponseIds == {"r1", "r2"}

Reasons == {"ceiling A2", "ceiling B1"}

Summaries == {"summary"}

ByteCounts == {48000, 96000}

NoId == "None"

NoArg == "no argument"

\* ----------------------------------------------------------------- states
INACTIVE == "inactive"

TRIGGERED == "triggered"

ACK_GENERATING == "ack_generating"

ACK_SPEAKING == "ack_speaking"

REPORT_GENERATING == "report_generating"

SUMMARY_SENDING == "summary_sending"

SUMMARY_SPEAKING == "summary_speaking"

GOODBYE_SENDING == "goodbye_sending"

GOODBYE_SPEAKING == "goodbye_speaking"

COMPLETE == "complete"

AssessmentState ==
    {INACTIVE, TRIGGERED, ACK_GENERATING, ACK_SPEAKING, REPORT_GENERATING,
     SUMMARY_SENDING, SUMMARY_SPEAKING, GOODBYE_SENDING, GOODBYE_SPEAKING,
     COMPLETE}

\* position of a state in the declaration order of the enum
StateOrder(st) ==
    CASE st = INACTIVE -> 0
      [] st = TRIGGERED -> 1
      [] st = ACK_GENERATING -> 2
      [] st = ACK_SPEAKING -> 3
      [] st = REPORT_GENERATING -> 4
      [] st = SUMMARY_SENDING -> 5
      [] st = SUMMARY_SPEAKING -> 6
      [] st = GOODBYE_SENDING -> 7
      [] st = GOODBYE_SPEAKING -> 8
      [] st = COMPLETE -> 9

VARIABLES
    sm,      \* the AssessmentStateMachine object (its five fields)
    waiters, \* the calls suspended in wait_for_audio_complete, a bag
    last,    \* the last call made: operation, arguments, result
    session, \* the session driven by the event router and its coroutines
    steps    \* how many calls were made, while the run follows HappyPath

vars == <<sm, waiters, last, session, steps>>

\* ------------------------------------------------------ ResponseTracker
ResponseTracker(response_id, state) ==
    [response_id |-> response_id,
     state |-> state,
     audio_started |-> FALSE,
     audio_complete |-> FALSE,
     response_complete |-> FALSE,
     audio_event |-> FALSE,
     audio_bytes_received |-> 0]

\* a float that is the quotient of two integers, kept exact: the fraction
\* num / den in lowest terms
RECURSIVE GCD(_, _)
GCD(a, b) ==
    IF b = 0 THEN a ELSE GCD(b, a % b)

Quotient(a, b) ==
    [num |-> a \div GCD(a, b), den |-> b \div GCD(a, b)]

\* a tracker counting stereo frames: bytes / 96000
calculate_audio_duration_stereo(tracker) ==
    IF tracker.audio_bytes_received = 0
    THEN Quotient(0, 1)
    ELSE Quotient(tracker.audio_bytes_received, 96000)

\* seconds of 16-bit 24 kHz mono audio
calculate_audio_duration(tracker) ==
    IF tracker.audio_bytes_received = 0
    THEN Quotient(0, 1)
    ELSE Quotient(tracker.audio_bytes_received, 48000)

\* self.response_trackers[response_id] = tracker  (insert or overwrite)
SetTracker(trackers, response_id, tracker) ==
    [id \in (DOMAIN trackers) \cup {response_id} |->
        IF id = response_id THEN tracker ELSE trackers[id]]

\* -------------------------------------------- AssessmentStateMachine
\* Every operation maps the object s to [sm, ret, created]: the object
\* after the call, the value returned ("True", "False", "None") and the
\* ids for which the call constructed a new ResponseTracker.
NewStateMachine ==
    [current_state |-> INACTIVE,
     response_trackers |-> << >>,
     active_response_id |-> NoId,
     assessment_reason |-> "",
     verbal_summary |-> ""]

Result(s, ret) ==
    [sm |-> s, ret |-> ret, created |-> {}]

\* trigger_assessment without the duplicate-trigger guard
trigger_assessment_unguarded(s, reason) ==
    Result([s EXCEPT !.current_state = TRIGGERED,
                     !.assessment_reason = reason], "True")

\* trigger_assessment accepting a new trigger once the delivery is complete
trigger_assessment_restartable(s, reason) ==
    IF s.current_state \in {INACTIVE, COMPLETE}
    THEN Result([s EXCEPT !.current_state = TRIGGERED,
                          !.assessment_reason = reason], "True")
    ELSE Result(s, "False")

trigger_assessment(s, reason) ==
    IF s.current_state # INACTIVE
    THEN Result(s, "False")
    ELSE Result([s EXCEPT !.current_state = TRIGGERED,
                          !.assessment_reason = reason], "True")

\* start_acknowledgment_response without the TRIGGERED guard
start_acknowledgment_response_unguarded(s, response_id) ==
    [sm |-> [s EXCEPT !.current_state = ACK_GENERATING,
                      !.active_response_id = response_id,
                      !.response_trackers =
                          SetTracker(@, response_id,
                              ResponseTracker(response_id, ACK_GENERATING))],
     ret |-> "None",
     created |-> {response_id}]

start_acknowledgment_response(s, response_id) ==
    IF s.current_state # TRIGGERED
    THEN Result(s, "None")
    ELSE [sm |-> [s EXCEPT !.current_state = ACK_GENERATING,
                           !.active_response_id = response_id,
                           !.response_trackers =
                               SetTracker(@, response_id,
                                   ResponseTracker(response_id, ACK_GENERATING))],
          ret |-> "None",
          created |-> {response_id}]

\* mark_audio_started advancing the state for an untracked id as well
mark_audio_started_any_id(s, response_id) ==
    LET s1 == IF response_id \in DOMAIN s.response_trackers
              THEN [s EXCEPT !.response_trackers[response_id].audio_started = TRUE]
              ELSE s
    IN Result([s1 EXCEPT !.current_state =
                             IF @ = ACK_GENERATING THEN ACK_SPEAKING
                             ELSE IF @ = SUMMARY_SENDING THEN SUMMARY_SPEAKING
                             ELSE IF @ = GOODBYE_SENDING THEN GOODBYE_SPEAKING
                             ELSE @], "None")

\* mark_audio_started that only records the flag
mark_audio_started_flag_only(s, response_id) ==
    IF response_id \in DOMAIN s.response_trackers
    THEN Result([s EXCEPT !.response_trackers[response_id].audio_started = TRUE],
                "None")
    ELSE Result(s, "None")

mark_audio_started(s, response_id) ==
    IF response_id \in DOMAIN s.response_trackers
    THEN Result([s EXCEPT !.response_trackers[response_id].audio_started = TRUE,
                          !.current_state =
                              IF @ = ACK_GENERATING THEN ACK_SPEAKING
                              ELSE IF @ = SUMMARY_SENDING THEN SUMMARY_SPEAKING
                              ELSE IF @ = GOODBYE_SENDING THEN GOODBYE_SPEAKING
                              ELSE @], "None")
    ELSE Result(s, "None")

track_audio_bytes(s, response_id, bytes_count) ==
    IF response_id \in DOMAIN s.response_trackers
    THEN Result([s EXCEPT !.response_trackers[response_id].audio_bytes_received =
                              @ + bytes_count], "None")
    ELSE Result(s, "None")

\* mark_audio_complete without the audio_event.set() of line 132
mark_audio_complete_without_event(s, response_id) ==
    IF response_id \notin DOMAIN s.response_trackers
    THEN Result(s, "None")
    ELSE Result([s EXCEPT !.response_trackers[response_id].audio_complete = TRUE],
                "None")

mark_audio_complete(s, response_id) ==
    IF response_id \notin DOMAIN s.response_trackers
    THEN Result(s, "None")
    ELSE Result([s EXCEPT !.response_trackers[response_id].audio_complete = TRUE,
                          !.response_trackers[response_id].audio_event = TRUE],
                "None")

\* mark_response_complete conflated with audio completion
mark_response_complete_sets_audio(s, response_id) ==
    IF response_id \notin DOMAIN s.response_trackers
    THEN Result(s, "None")
    ELSE Result([s EXCEPT !.response_trackers[response_id].response_complete = TRUE,
                          !.response_trackers[response_id].audio_complete = TRUE,
                          !.response_trackers[response_id].audio_event = TRUE],
                "None")

\* mark_response_complete flipping the flag on every call
mark_response_complete_toggle(s, response_id) ==
    IF response_id \notin DOMAIN s.response_trackers
    THEN Result(s, "None")
    ELSE Result([s EXCEPT !.response_trackers[response_id].response_complete = ~@],
                "None")

mark_response_complete(s, response_id) ==
    IF response_id \notin DOMAIN s.response_trackers
    THEN Result(s, "None")
    ELSE Result([s EXCEPT !.response_trackers[response_id].response_complete = TRUE],
                "None")

can_proceed_to_report_generation(s) ==
    s.current_state \in {ACK_GENERATING, ACK_SPEAKING}

\* start_report_generation that also proceeds from TRIGGERED
start_report_generation_from_triggered(s) ==
    IF s.current_state \notin {TRIGGERED, ACK_GENERATING, ACK_SPEAKING}
    THEN Result(s, "False")
    ELSE Result([s EXCEPT !.current_state = REPORT_GENERATING], "True")

start_report_generation(s) ==
    IF ~can_proceed_to_report_generation(s)
    THEN Result(s, "False")
    ELSE Result([s EXCEPT !.current_state = REPORT_GENERATING], "True")

\* can_send_summary without the REPORT_GENERATING test
can_send_summary_any_state(s) ==
    IF s.active_response_id = NoId THEN FALSE
    ELSE /\ s.active_response_id \in DOMAIN s.response_trackers
         /\ s.response_trackers[s.active_response_id].audio_complete

\* truthiness of the value can_send_summary() returns
can_send_summary(s) ==
    IF s.current_state # REPORT_GENERATING THEN FALSE
    ELSE IF s.active_response_id = NoId THEN FALSE
    ELSE /\ s.active_response_id \in DOMAIN s.response_trackers
         /\ s.response_trackers[s.active_response_id].audio_complete

start_summary_response(s, response_id, verbal_summary) ==
    [sm |-> [s EXCEPT !.current_state = SUMMARY_SENDING,
                      !.active_response_id = response_id,
                      !.verbal_summary = verbal_summary,
                      !.response_trackers =
                          SetTracker(@, response_id,
                              ResponseTracker(response_id, SUMMARY_SENDING))],
     ret |-> "None",
     created |-> {response_id}]

\* can_send_goodbye testing response_complete instead of audio_complete
can_send_goodbye_on_response_done(s) ==
    IF s.current_state \notin {SUMMARY_SENDING, SUMMARY_SPEAKING} THEN FALSE
    ELSE /\ s.active_response_id \in DOMAIN s.response_trackers
         /\ s.response_trackers[s.active_response_id].response_complete

\* truthiness of the value can_send_goodbye() returns
can_send_goodbye(s) ==
    IF s.current_state \notin {SUMMARY_SENDING, SUMMARY_SPEAKING} THEN FALSE
    ELSE /\ s.active_response_id \in DOMAIN s.response_trackers
         /\ s.response_trackers[s.active_response_id].audio_complete

start_goodbye_response_without_tracker(s, response_id) ==
    [sm |-> [s EXCEPT !.current_state = GOODBYE_SENDING,
                      !.active_response_id = response_id],
     ret |-> "None",
     created |-> {}]

start_goodbye_response(s, response_id) ==
    [sm |-> [s EXCEPT !.current_state = GOODBYE_SENDING,
                      !.active_response_id = response_id,
                      !.response_trackers =
                          SetTracker(@, response_id,
                              ResponseTracker(response_id, GOODBYE_SENDING))],
     ret |-> "None",
     created |-> {response_id}]

mark_complete(s) ==
    Result([s EXCEPT !.current_state = COMPLETE], "None")

is_complete(s) ==
    s.current_state = COMPLETE

\* ------------------------------------------------ wait_for_audio_complete
\* a call suspended in asyncio.wait_for: the id it was called with and the
\* event it awaits ("tracker": the event of the tracker now registered for
\* the id; "orphan_set" / "orphan_unset": the event of a replaced tracker)
Suspended(response_id) ==
    [response_id |-> response_id, audio_event |-> "tracker"]

\* wait_for_audio_complete without the early return for an unknown id
wait_for_audio_complete_unknown_true(s, response_id) ==
    IF response_id \notin DOMAIN s.response_trackers
    THEN "True"
    ELSE IF s.response_trackers[response_id].audio_complete
    THEN "True"
    ELSE "suspended"

\* wait_for_audio_complete without the early return for complete audio
wait_for_audio_complete_always_awaits(s, response_id) ==
    IF response_id \notin DOMAIN s.response_trackers
    THEN "False"
    ELSE "suspended"

\* wait_for_audio_complete up to its await: it returns at once for an
\* unknown id ("False") or an already complete tracker ("True"), else the
\* caller suspends on the tracker's event
wait_for_audio_complete(s, response_id) ==
    IF response_id \notin DOMAIN s.response_trackers
    THEN "False"
    ELSE IF s.response_trackers[response_id].audio_complete
    THEN "True"
    ELSE "suspended"

\* the flag of the event a suspended call waits on
EventIsSet(s, w) ==
    IF w.audio_event = "tracker"
    THEN s.response_trackers[w.response_id].audio_event
    ELSE w.audio_event = "orphan_set"

\* the suspended calls, a bag: the calls suspended as w, BagAdd and BagRemove
Copies(ws, w) ==
    IF w \in DOMAIN ws THEN ws[w] ELSE 0

BagAdd(ws, w) ==
    [v \in DOMAIN ws \cup {w} |-> Copies(ws, v) + (IF v = w THEN 1 ELSE 0)]

BagRemove(ws, w) ==
    [v \in {u \in DOMAIN ws : u # w \/ ws[u] > 1} |->
        ws[v] - (IF v = w THEN 1 ELSE 0)]

RECURSIVE BagSize(_)
BagSize(ws) ==
    IF DOMAIN ws = {} THEN 0
    ELSE LET w == CHOOSE v \in DOMAIN ws : TRUE
         IN ws[w] + BagSize([v \in DOMAIN ws \ {w} |-> ws[v]])

\* the trackers of the ids in created were replaced: the calls suspended on
\* the replaced trackers' events keep those events
KeepOldEvent(w, s, created) ==
    IF w.audio_event = "tracker" /\ w.response_id \in created
    THEN [w EXCEPT !.audio_event =
             IF s.response_trackers[w.response_id].audio_event
             THEN "orphan_set" ELSE "orphan_unset"]
    ELSE w

KeepOldEvents(ws, s, created) ==
    LET moved == {KeepOldEvent(w, s, created) : w \in DOMAIN ws}
        from(v) == {w \in DOMAIN ws : KeepOldEvent(w, s, created) = v}
    IN [v \in moved |-> BagSize([w \in from(v) |-> ws[w]])]

\* ------------------------------------------------------------------ calls
\* arg: the reason or verbal summary passed (NoArg if none); bytes_count:
\* the byte count passed (0 if none)
Call(op, response_id, arg, ret) ==
    [op |-> op, response_id |-> response_id, arg |-> arg, bytes_count |-> 0,
     ret |-> ret]

\* one call of a state machine operation with result r
ApplyCall(op, response_id, arg, r) ==
    /\ sm' = r.sm
    /\ waiters' = KeepOldEvents(waiters, sm, r.created)
    /\ last' = Call(op, response_id, arg, r.ret)

\* ... made on the state machine alone, outside a session
Apply(op, response_id, arg, r) ==
    /\ ApplyCall(op, response_id, arg, r)
    /\ UNCHANGED <<session, steps>>

\* ------------------------------------------------------------- the session
\* SessionManager as the handlers use it, once InterviewAgent.run has set
\* is_running and the event loop reads events; the coroutine of the
\* response handler (pc, response_id and audio_ok of the suspended call)
\* and the background report task
NewSession ==
    [current_response_id |-> NoId,
     user_acknowledged_report |-> FALSE,
     should_end_session |-> FALSE,
     is_running |-> TRUE,
     pc |-> "idle",
     response_id |-> NoId,
     audio_ok |-> FALSE,
     task |-> "none",
     summary_requests |-> 0,
     goodbye_requests |-> 0,
     queued |-> << >>,
     sent |-> << >>,
     conversation_history |-> 0,
     transcript_buffer |-> "",
     forwarded |-> << >>,
     report_history |-> -1]

Init ==
    /\ sm = NewStateMachine
    /\ waiters = << >>
    /\ last = Call("__init__", NoId, NoArg, "None")
    /\ session = NewSession
    /\ steps = 0

TriggerAssessment ==
    \E reason \in Reasons :
        Apply("trigger_assessment", NoId, reason, trigger_assessment(sm, reason))

StartAcknowledgmentResponse ==
    \E response_id \in ResponseIds :
        Apply("start_acknowledgment_response", response_id, NoArg,
              start_acknowledgment_response(sm, response_id))

StartSummaryResponse ==
    \E response_id \in ResponseIds, verbal_summary \in Summaries :
        Apply("start_summary_response", response_id, verbal_summary,
              start_summary_response(sm, response_id, verbal_summary))

StartGoodbyeResponse ==
    \E response_id \in ResponseIds :
        Apply("start_goodbye_response", response_id, NoArg,
              start_goodbye_response(sm, response_id))

MarkAudioStarted ==
    \E response_id \in ResponseIds :
        Apply("mark_audio_started", response_id, NoArg,
              mark_audio_started(sm, response_id))

TrackAudioBytes ==
    \E response_id \in ResponseIds, bytes_count \in ByteCounts :
        /\ response_id \in DOMAIN sm.response_trackers =>
              sm.response_trackers[response_id].audio_bytes_received + bytes_count
                  <= MaxAudioBytes
        /\ sm' = track_audio_bytes(sm, response_id, bytes_count).sm
        /\ last' = [Call("track_audio_bytes", response_id, NoArg, "None")
                        EXCEPT !.bytes_count = bytes_count]
        /\ UNCHANGED <<waiters, session, steps>>

MarkAudioComplete ==
    \E response_id \in ResponseIds :
        Apply("mark_audio_complete", response_id, NoArg,
              mark_audio_complete(sm, response_id))

MarkResponseComplete ==
    \E response_id \in ResponseIds :
        Apply("mark_response_complete", response_id, NoArg,
              mark_response_complete(sm, response_id))

StartReportGeneration ==
    Apply("start_report_generation", NoId, NoArg, start_report_generation(sm))

MarkComplete ==
    Apply("mark_complete", NoId, NoArg, mark_complete(sm))

\* a task calls wait_for_audio_complete
WaitForAudioComplete ==
    \E response_id \in ResponseIds :
        LET ret == wait_for_audio_complete(sm, response_id) IN
        /\ ret = "suspended" => BagSize(waiters) < MaxWaiters
        /\ waiters' = IF ret = "suspended"
                      THEN BagAdd(waiters, Suspended(response_id))
                      ELSE waiters
        /\ last' = Call("wait_for_audio_complete", response_id, NoArg, ret)
        /\ UNCHANGED <<sm, session, steps>>

\* the awaited event was set: asyncio.wait_for returns, the call returns True
WaitReleased ==
    \E w \in DOMAIN waiters :
        /\ EventIsSet(sm, w)
        /\ waiters' = BagRemove(waiters, w)
        /\ last' = Call("wait_for_audio_complete.return", w.response_id,
                        NoArg, "True")
        /\ UNCHANGED <<sm, session, steps>>

\* a timeout that marks the audio of the awaited response complete
WaitTimeoutCompletesAudio ==
    \E w \in DOMAIN waiters :
        /\ ~EventIsSet(sm, w)
        /\ waiters' = BagRemove(waiters, w)
        /\ last' = Call("wait_for_audio_complete.return", w.response_id,
                        NoArg, "False")
        /\ sm' = [sm EXCEPT !.response_trackers =
                     [id \in DOMAIN @ |->
                         IF id = w.response_id
                         THEN [@[id] EXCEPT !.audio_complete = TRUE]
                         ELSE @[id]]]
        /\ UNCHANGED <<session, steps>>

\* the timeout fired before the event was set: asyncio.TimeoutError is
\* caught, the call returns False
WaitTimeout ==
    \E w \in DOMAIN waiters :
        /\ ~EventIsSet(sm, w)
        /\ waiters' = BagRemove(waiters, w)
        /\ last' = Call("wait_for_audio_complete.return", w.response_id,
                        NoArg, "False")
        /\ UNCHANGED <<sm, session, steps>>

\* every operation of the state machine except the byte accounting, called
\* at any time with any arguments; no task waits
Next ==
    \/ TriggerAssessment
    \/ StartAcknowledgmentResponse
    \/ StartSummaryResponse
    \/ StartGoodbyeResponse
    \/ MarkAudioStarted
    \/ MarkAudioComplete
    \/ MarkResponseComplete
    \/ StartReportGeneration
    \/ MarkComplete

Spec == Init /\ [][Next]_vars

\* The registrations as the event router issues them: a summary response is
\* registered only in REPORT_GENERATING, a goodbye response only in
\* SUMMARY_SENDING / SUMMARY_SPEAKING once the summary audio is complete.
RegisterSummaryResponse ==
    /\ sm.current_state = REPORT_GENERATING
    /\ StartSummaryResponse

RegisterGoodbyeResponse ==
    /\ can_send_goodbye(sm)
    /\ StartGoodbyeResponse

\* the state machine driven in protocol order
NextOrdered ==
    \/ TriggerAssessment
    \/ StartAcknowledgmentResponse
    \/ RegisterSummaryResponse
    \/ RegisterGoodbyeResponse
    \/ MarkAudioStarted
    \/ MarkAudioComplete
    \/ MarkResponseComplete
    \/ StartReportGeneration
    \/ MarkComplete

\* ... with the audio bytes of the responses counted
NextBytes ==
    \/ NextOrdered
    \/ TrackAudioBytes

SpecBytes == Init /\ [][NextBytes]_vars

\* ... with tasks calling wait_for_audio_complete
NextWait ==
    \/ NextOrdered
    \/ WaitForAudioComplete
    \/ WaitReleased
    \/ WaitTimeout

SpecWait == Init /\ [][NextWait]_vars

\* ------------------------------------------------------- the happy path
\* The end-to-end scenario: every response is registered under an id that
\* was not used before, in protocol order.
ScenarioIds == {"r1", "r2", "r3"}

HappyPath ==
    << [op |-> "trigger_assessment", response_id |-> NoId],
       [op |-> "start_acknowledgment_response", response_id |-> "r1"],
       [op |-> "mark_audio_started", response_id |-> "r1"],
       [op |-> "mark_audio_complete", response_id |-> "r1"],
       [op |-> "start_report_generation", response_id |-> NoId],
       [op |-> "start_summary_response", response_id |-> "r2"],
       [op |-> "mark_audio_started", response_id |-> "r2"],
       [op |-> "mark_audio_complete", response_id |-> "r2"],
       [op |-> "start_goodbye_response", response_id |-> "r3"],
       [op |-> "mark_audio_started", response_id |-> "r3"],
       [op |-> "mark_audio_complete", response_id |-> "r3"],
       [op |-> "mark_complete", response_id |-> NoId] >>

\* the run so far followed HappyPath for n calls; the next call either
\* is the next call of HappyPath or leaves it (-1) for good
Follow(n, op, response_id) ==
    IF n >= 0 /\ n < Len(HappyPath)
         /\ HappyPath[n + 1] = [op |-> op, response_id |-> response_id]
    THEN n + 1
    ELSE -1

ScenarioCall(op, response_id, arg, r) ==
    /\ ApplyCall(op, response_id, arg, r)
    /\ steps' = Follow(steps, op, response_id)
    /\ UNCHANGED session

Unused(response_id) ==
    response_id \notin DOMAIN sm.response_trackers

ScenarioTrigger ==
    \E reason \in Reasons :
        ScenarioCall("trigger_assessment", NoId, reason,
                     trigger_assessment(sm, reason))

ScenarioRegisterAck ==
    \E response_id \in ScenarioIds :
        /\ Unused(response_id)
        /\ ScenarioCall("start_acknowledgment_response", response_id, NoArg,
                        start_acknowledgment_response(sm, response_id))

ScenarioRegisterSummary ==
    \E response_id \in ScenarioIds, verbal_summary \in Summaries :
        /\ Unused(response_id)
        /\ sm.current_state = REPORT_GENERATING
        /\ ScenarioCall("start_summary_response", response_id, verbal_summary,
                        start_summary_response(sm, response_id, verbal_summary))

ScenarioRegisterGoodbye ==
    \E response_id \in ScenarioIds :
        /\ Unused(response_id)
        /\ can_send_goodbye(sm)
        /\ ScenarioCall("start_goodbye_response", response_id, NoArg,
                        start_goodbye_response(sm, response_id))

ScenarioAudioChunk ==
    \E response_id \in ScenarioIds :
        ScenarioCall("mark_audio_started", response_id, NoArg,
                     mark_audio_started(sm, response_id))

ScenarioAudioTranscriptDone ==
    \E response_id \in ScenarioIds :
        ScenarioCall("mark_audio_complete", response_id, NoArg,
                     mark_audio_complete(sm, response_id))

ScenarioStartReportGeneration ==
    ScenarioCall("start_report_generation", NoId, NoArg,
                 start_report_generation(sm))

ScenarioMarkComplete ==
    ScenarioCall("mark_complete", NoId, NoArg, mark_complete(sm))

NextScenario ==
    \/ ScenarioTrigger
    \/ ScenarioRegisterAck
    \/ ScenarioRegisterSummary
    \/ ScenarioRegisterGoodbye
    \/ ScenarioAudioChunk
    \/ ScenarioAudioTranscriptDone
    \/ ScenarioStartReportGeneration
    \/ ScenarioMarkComplete

SpecScenario == Init /\ [][NextScenario]_vars

\* ------------------------------------------------------ the event router
\* EventDispatcher.dispatch awaits the handler of each inbound event, so
\* the next event is dispatched only when the handler of the one before has
\* returned (session.pc = "idle").  A handler that awaits a wait or a sleep
\* is a coroutine suspended at session.pc; it is the only caller of
\* wait_for_audio_complete of a session, so its call is kept in session
\* and not in waiters.  The background report task runs whenever the
\* event loop is free.  Events carry a response id or none (NoId).
EventIds == ResponseIds \cup {NoId}

DeltaLengths == {96000}
CallIds == {"call_1", NoId}
Transcripts == {"", "text"}
Malformed == -1
PayloadLengths == (0 .. MaxPayload) \cup {Malformed}

Unknown == "unknown"

Pair(s, ss) ==
    [sm |-> s, session |-> ss]

\* one step of the session: the event or coroutine step is recorded in last
\* session.sent keeps the outbound messages of the step just taken,
\* session.forwarded the lengths of the audio chunks it queued for playback
RouterEvent(op, response_id, arg, ret, r) ==
    /\ sm' = r.sm
    /\ session' = [r.session EXCEPT
                      !.sent = SubSeq(@, Len(session.sent) + 1, Len(@)),
                      !.forwarded = SubSeq(@, Len(session.forwarded) + 1, Len(@))]
    /\ last' = Call(op, response_id, arg, ret)
    /\ UNCHANGED <<waiters, steps>>

RouterStep(op, response_id, r) ==
    RouterEvent(op, response_id, NoArg, "None", r)

\* websocket.send of one outbound message
send(ss, message) ==
    [ss EXCEPT !.sent = Append(@, message)]

\* _send_tool_output: nothing is sent without a call id
send_tool_output(ss, call_id) ==
    IF call_id = NoId
    THEN ss
    ELSE send(send(ss, "conversation.item.create"), "response.create")

\* _send_text_message: one response.create with the text as instructions
send_text_message(ss) ==
    send(ss, "response.create")

handle_response_created_without_summary_check(s, ss, response_id) ==
    IF response_id = NoId
    THEN Pair(s, ss)
    ELSE LET ss1 == [ss EXCEPT !.current_response_id = response_id]
             tracker_complete ==
                 /\ s.active_response_id \in DOMAIN s.response_trackers
                 /\ s.response_trackers[s.active_response_id].audio_complete
         IN IF s.current_state = TRIGGERED
            THEN Pair(start_acknowledgment_response(s, response_id).sm, ss1)
            ELSE IF s.current_state = REPORT_GENERATING
            THEN Pair(start_summary_response(s, response_id,
                                             s.verbal_summary).sm, ss1)
            ELSE IF s.current_state \in {SUMMARY_SPEAKING, SUMMARY_SENDING}
            THEN IF tracker_complete
                 THEN Pair(start_goodbye_response(s, response_id).sm, ss1)
                 ELSE Pair(s, ss1)
            ELSE Pair(s, ss1)

\* response.created
handle_response_created(s, ss, response_id) ==
    IF response_id = NoId
    THEN Pair(s, ss)
    ELSE LET ss1 == [ss EXCEPT !.current_response_id = response_id]
             tracker_complete ==
                 /\ s.active_response_id \in DOMAIN s.response_trackers
                 /\ s.response_trackers[s.active_response_id].audio_complete
         IN IF s.current_state = TRIGGERED
            THEN Pair(start_acknowledgment_response(s, response_id).sm, ss1)
            ELSE IF s.current_state = REPORT_GENERATING
            THEN IF s.verbal_summary # ""
                 THEN Pair(start_summary_response(s, response_id,
                                                  s.verbal_summary).sm, ss1)
                 ELSE Pair(s, ss1)
            ELSE IF s.current_state \in {SUMMARY_SPEAKING, SUMMARY_SENDING}
            THEN IF tracker_complete
                 THEN Pair(start_goodbye_response(s, response_id).sm, ss1)
                 ELSE Pair(s, ss1)
            ELSE Pair(s, ss1)

\* the end of _handle_response_done: the early exit after the user's
\* acknowledgment; the coroutine has returned
response_done_end(s, ss) ==
    LET idle == [ss EXCEPT !.pc = "idle", !.response_id = NoId,
                           !.audio_ok = FALSE]
    IN IF ss.user_acknowledged_report /\ ~is_complete(s)
       THEN Pair(mark_complete(s).sm,
                 [idle EXCEPT !.should_end_session = TRUE,
                              !.is_running = FALSE])
       ELSE Pair(s, idle)

\* _handle_acknowledgment_complete after its wait
acknowledgment_after_wait(s, ss, audio_ok) ==
    IF audio_ok \/ s.current_state = ACK_SPEAKING
    THEN LET r == start_report_generation(s)
         IN IF r.ret = "True"
            THEN response_done_end(r.sm, [ss EXCEPT !.task = "pending"])
            ELSE response_done_end(s, ss)
    ELSE response_done_end(s, ss)

\* _handle_summary_complete after its wait, up to the drain sleep
summary_after_wait(s, ss, audio_ok) ==
    IF audio_ok \/ s.current_state = SUMMARY_SPEAKING
    THEN Pair(s, [ss EXCEPT !.pc = "summary_sleep", !.audio_ok = audio_ok])
    ELSE response_done_end(s, ss)

summary_after_sleep_always_sends(s, ss) ==
    response_done_end(s, send_text_message(
                             [ss EXCEPT !.goodbye_requests = @ + 1]))

\* _handle_summary_complete after the drain sleep
summary_after_sleep(s, ss) ==
    IF can_send_goodbye(s)
    THEN response_done_end(s, send_text_message(
                                  [ss EXCEPT !.goodbye_requests = @ + 1]))
    ELSE response_done_end(s, ss)

\* _handle_goodbye_complete after its wait, up to the drain sleep
goodbye_after_wait(s, ss, audio_ok) ==
    Pair(s, [ss EXCEPT !.pc = "goodbye_sleep", !.audio_ok = audio_ok])

\* _handle_goodbye_complete that ends the session without mark_complete
goodbye_after_sleep_leaves_state(s, ss) ==
    response_done_end(s, [ss EXCEPT !.should_end_session = TRUE,
                                    !.is_running = FALSE])

\* _handle_goodbye_complete after the drain sleep
goodbye_after_sleep(s, ss) ==
    response_done_end(mark_complete(s).sm,
                      [ss EXCEPT !.should_end_session = TRUE,
                                 !.is_running = FALSE])

\* the handler of the phase after its wait returned audio_ok
after_wait(s, ss, audio_ok) ==
    IF s.current_state \in {ACK_GENERATING, ACK_SPEAKING}
    THEN acknowledgment_after_wait(s, ss, audio_ok)
    ELSE IF s.current_state \in {SUMMARY_SENDING, SUMMARY_SPEAKING}
    THEN summary_after_wait(s, ss, audio_ok)
    ELSE goodbye_after_wait(s, ss, audio_ok)

\* response.done, up to the first await that suspends
handle_response_done(s, ss, event_id) ==
    LET response_id == IF event_id # NoId THEN event_id
                       ELSE IF ss.current_response_id # NoId
                       THEN ss.current_response_id
                       ELSE Unknown
        s1 == IF response_id # Unknown
              THEN mark_response_complete(s, response_id).sm
              ELSE s
        ss1 == [ss EXCEPT !.response_id = response_id]
        waited == wait_for_audio_complete(s1, response_id)
    IN IF s1.current_state \in {ACK_GENERATING, ACK_SPEAKING,
                                SUMMARY_SENDING, SUMMARY_SPEAKING,
                                GOODBYE_SENDING, GOODBYE_SPEAKING}
       THEN IF waited = "suspended"
            THEN Pair(s1, [ss1 EXCEPT !.pc = "wait"])
            ELSE after_wait(s1, ss1, waited = "True")
       ELSE response_done_end(s1, ss1)

\* the chunk is padded with one zero byte if its length is odd
pad_odd_length_unpadded(length) ==
    length

pad_odd_length(length) ==
    IF length % 2 # 0 THEN length + 1 ELSE length

\* audio_manager.queue_output_audio
queue_output_audio(ss, length) ==
    [ss EXCEPT !.forwarded = Append(@, length)]

\* response.audio.delta with a non-empty payload; bytes_count is the length
\* of the decoded payload, Malformed if base64.b64decode raises (caught)
handle_audio_delta(s, ss, event_id, bytes_count) ==
    LET response_id == IF event_id # NoId THEN event_id
                       ELSE ss.current_response_id
        tracked == response_id # NoId /\ s.current_state # INACTIVE
        started == IF tracked THEN mark_audio_started(s, response_id).sm
                   ELSE s
    IN IF bytes_count = Malformed
       THEN Pair(started, ss)
       ELSE Pair(IF tracked
                 THEN track_audio_bytes(started, response_id, bytes_count).sm
                 ELSE started,
                 queue_output_audio(ss, pad_odd_length(bytes_count)))

\* the handlers append a turn to the history only if no assessment is
\* active; conversation_history is the number of turns appended so far
add_conversation_turn_in_any_state(s, ss) ==
    [ss EXCEPT !.conversation_history = @ + 1]

add_conversation_turn(s, ss) ==
    IF s.current_state = INACTIVE
    THEN [ss EXCEPT !.conversation_history = @ + 1]
    ELSE ss

\* response.audio_transcript.done; transcript_buffer holds the text of the
\* response.audio_transcript.delta events received before it
handle_audio_transcript_done(s, ss, event_id) ==
    LET response_id == IF event_id # NoId THEN event_id
                       ELSE ss.current_response_id
        ss1 == IF ss.transcript_buffer # ""
               THEN [add_conversation_turn(s, ss) EXCEPT !.transcript_buffer = ""]
               ELSE ss
    IN IF response_id # NoId /\ s.current_state # INACTIVE
       THEN Pair(mark_audio_complete(s, response_id).sm, ss1)
       ELSE Pair(s, ss1)

\* conversation.item.input_audio_transcription.completed; acknowledgment:
\* the transcript contains one of the acknowledgment or goodbye keywords
handle_user_transcript(s, ss, acknowledgment) ==
    IF s.current_state # INACTIVE /\ acknowledgment
    THEN Pair(s, [ss EXCEPT !.user_acknowledged_report = TRUE,
                            !.should_end_session = TRUE,
                            !.is_running = FALSE])
    ELSE Pair(s, add_conversation_turn(s, ss))

\* the arguments of a trigger_assessment function call: a dict or a str;
\* a str encodes a dict, another JSON value (a list) or nothing parseable
DefaultReason == "Linguistic ceiling reached"

Arguments(type, encodes, reason) ==
    [type |-> type, encodes |-> encodes, reason |-> reason]

ArgumentPayloads ==
    {Arguments(type, "dict", reason) :
         type \in {"dict", "str"}, reason \in Reasons \cup {NoArg}}
        \cup {Arguments("str", encodes, NoArg) : encodes \in {"list", "garbage"}}

\* json.loads of a str that parses; arguments = {} when it raises
json_loads(arguments) ==
    Arguments(arguments.encodes, arguments.encodes, arguments.reason)

parse_arguments(arguments) ==
    IF arguments.type # "str"
    THEN arguments
    ELSE IF arguments.encodes = "garbage"
    THEN Arguments("dict", "dict", NoArg)
    ELSE json_loads(arguments)

\* arguments.get("reason", "Linguistic ceiling reached")
get_reason(arguments) ==
    IF arguments.reason # NoArg THEN arguments.reason ELSE DefaultReason

\* FunctionEventHandler._handle_trigger_assessment: the reason
extract_reason(arguments) ==
    LET parsed == parse_arguments(arguments) IN
    IF parsed.type = "dict" THEN get_reason(parsed) ELSE DefaultReason

\* RealtimeBridge.handle_function_call: .get is called on whatever
\* json.loads returned
bridge_extract_reason(arguments) ==
    LET parsed == parse_arguments(arguments) IN
    IF parsed.type = "dict" THEN get_reason(parsed) ELSE "AttributeError"

handle_trigger_assessment_always_sends(s, ss, reason, call_id) ==
    Pair(trigger_assessment(s, reason).sm,
         send_tool_output(send(ss, "input_audio_buffer.clear"), call_id))

\* response.function_call_arguments.done for trigger_assessment
handle_trigger_assessment(s, ss, reason, call_id) ==
    LET triggered == trigger_assessment(s, reason) IN
    IF triggered.ret = "True"
    THEN Pair(triggered.sm,
              send_tool_output(send(ss, "input_audio_buffer.clear"), call_id))
    ELSE Pair(triggered.sm, ss)

\* the loop is between two events and nothing waits in the receive buffer
Idle ==
    /\ session.pc = "idle"
    /\ session.queued = << >>

ResponseCreated ==
    \E response_id \in EventIds :
        /\ Idle
        /\ RouterStep("response.created", response_id,
                      handle_response_created(sm, session, response_id))

ResponseDone ==
    \E response_id \in EventIds :
        /\ Idle
        /\ RouterStep("response.done", response_id,
                      handle_response_done(sm, session, response_id))

AudioDelta ==
    \E response_id \in EventIds, bytes_count \in DeltaLengths :
        /\ Idle
        /\ \A id \in DOMAIN sm.response_trackers :
              id \in {response_id, session.current_response_id} =>
                  sm.response_trackers[id].audio_bytes_received + bytes_count
                      <= MaxAudioBytes
        /\ RouterStep("response.audio.delta", response_id,
                      handle_audio_delta(sm, session, response_id, bytes_count))

AudioTranscriptDone ==
    \E response_id \in EventIds, text \in Transcripts :
        /\ Idle
        /\ (sm.current_state = INACTIVE /\ text # "")
              => session.conversation_history < MaxTurns
        /\ RouterStep("response.audio_transcript.done", response_id,
                      handle_audio_transcript_done(
                          sm, [session EXCEPT !.transcript_buffer = text],
                          response_id))

UserTranscript ==
    \E acknowledgment \in BOOLEAN :
        /\ Idle
        /\ sm.current_state = INACTIVE
              => session.conversation_history < MaxTurns
        /\ RouterEvent("conversation.item.input_audio_transcription.completed",
                       NoId,
                       IF acknowledgment THEN "acknowledgment" ELSE "other",
                       "None",
                       handle_user_transcript(sm, session, acknowledgment))

FunctionCallArgumentsDone ==
    \E reason \in Reasons, call_id \in CallIds :
        /\ Idle
        /\ RouterEvent("response.function_call_arguments.done", NoId,
                       call_id, "None",
                       handle_trigger_assessment(sm, session, reason, call_id))

\* error and conversation.item.creation_failed are logged
ErrorTypes == {"error", "conversation.item.creation_failed"}

handle_error_ends_session(s, ss) ==
    Pair(s, [ss EXCEPT !.should_end_session = TRUE, !.is_running = FALSE])

\* _handle_error and _handle_creation_failed print the error's message
handle_error(s, ss) ==
    Pair(s, ss)

ErrorEvent ==
    \E event_type \in ErrorTypes :
        /\ Idle
        /\ RouterStep(event_type, NoId, handle_error(sm, session))

\* the suspended wait_for_audio_complete returns: True if the tracker's
\* event was set, False on the timeout
WaitReturns ==
    /\ session.pc = "wait"
    /\ LET audio_ok == sm.response_trackers[session.response_id].audio_event IN
           RouterEvent("wait_for_audio_complete.return", session.response_id,
                       NoArg, IF audio_ok THEN "True" ELSE "False",
                       after_wait(sm, session, audio_ok))

SummaryDrained ==
    /\ session.pc = "summary_sleep"
    /\ can_send_goodbye(sm) => session.goodbye_requests < MaxRequests
    /\ RouterStep("_handle_summary_complete.sleep", session.response_id,
                  summary_after_sleep(sm, session))

GoodbyeDrained ==
    /\ session.pc = "goodbye_sleep"
    /\ RouterStep("_handle_goodbye_complete.sleep", session.response_id,
                  goodbye_after_sleep(sm, session))

GenerateAndSendAssessmentResends ==
    /\ session.task = "pending"
    /\ RouterStep("generate_and_send_assessment", NoId,
                  Pair([sm EXCEPT !.verbal_summary = "summary"],
                       send_text_message(send_text_message(
                           [session EXCEPT
                               !.task = "done",
                               !.report_history = session.conversation_history,
                               !.summary_requests = @ + 2]))))

\* the background task generate_and_send_assessment: the report is
\* generated, rendered and saved, verbal_summary stored, the summary sent
GenerateAndSendAssessment ==
    /\ session.task = "pending"
    /\ RouterStep("generate_and_send_assessment", NoId,
                  Pair([sm EXCEPT !.verbal_summary = "summary"],
                       send_text_message(
                           [session EXCEPT
                               !.task = "done",
                               !.report_history = session.conversation_history,
                               !.summary_requests = @ + 1])))

GenerateAssessmentFailsAfterStore ==
    /\ session.task = "pending"
    /\ RouterStep("generate_and_send_assessment", NoId,
                  Pair([sm EXCEPT !.verbal_summary = "summary"],
                       [session EXCEPT
                           !.task = "failed",
                           !.report_history = session.conversation_history]))

\* ... or generation, rendering or saving raised: caught and logged
GenerateAssessmentFails ==
    /\ session.task = "pending"
    /\ RouterStep("generate_and_send_assessment", NoId,
                  Pair(sm, [session EXCEPT
                               !.task = "failed",
                               !.report_history = session.conversation_history]))

\* the events that arrive while the handler of an earlier event is suspended
InboundEvent(type, response_id, arg) ==
    [type |-> type, response_id |-> response_id, arg |-> arg]

InboundEvents ==
    {InboundEvent("response.audio_transcript.done", id, NoArg) : id \in ResponseIds}
        \cup {InboundEvent("conversation.item.input_audio_transcription.completed",
                          NoId, "acknowledgment")}

\* EventDispatcher.dispatch: the event goes to the handler of its type
dispatch(s, ss, event) ==
    IF event.type = "response.audio_transcript.done"
    THEN handle_audio_transcript_done(s, ss, event.response_id)
    ELSE handle_user_transcript(s, ss, event.arg = "acknowledgment")

\* the websocket receives a message while event_handler is inside
\* `await dispatch(event)` of an earlier one: it stays in the receive buffer
Receive ==
    \E event \in InboundEvents :
        /\ session.pc # "idle"
        /\ Len(session.queued) < MaxQueued
        /\ session' = [session EXCEPT !.queued = Append(@, event),
                                      !.sent = << >>,
                                      !.forwarded = << >>]
        /\ last' = Call("websocket.recv", event.response_id, event.arg, "None")
        /\ UNCHANGED <<sm, waiters, steps>>

\* the handler has returned: `async for message in websocket` takes the
\* oldest buffered message and dispatches it (recorded as "buffered")
DispatchQueued ==
    /\ session.pc = "idle"
    /\ session.queued # << >>
    /\ LET event == Head(session.queued) IN
           RouterEvent(event.type, event.response_id, event.arg, "buffered",
                       dispatch(sm, [session EXCEPT !.queued = Tail(@)], event))

NextRouter ==
    \/ ResponseCreated
    \/ ResponseDone
    \/ AudioDelta
    \/ AudioTranscriptDone
    \/ UserTranscript
    \/ FunctionCallArgumentsDone
    \/ ErrorEvent
    \/ WaitReturns
    \/ SummaryDrained
    \/ GoodbyeDrained
    \/ GenerateAndSendAssessment
    \/ GenerateAssessmentFails
    \/ Receive
    \/ DispatchQueued

SpecRouter == Init /\ [][NextRouter]_vars

\* response.audio.delta with a short payload of any length
AudioDeltaChunk ==
    \E response_id \in EventIds, bytes_count \in PayloadLengths :
        /\ Idle
        /\ \A id \in DOMAIN sm.response_trackers :
              id \in {response_id, session.current_response_id} =>
                  sm.response_trackers[id].audio_bytes_received + bytes_count
                      <= 2 * MaxPayload
        /\ LET r == handle_audio_delta(sm, session, response_id, bytes_count) IN
              /\ sm' = r.sm
              /\ session' = [r.session EXCEPT
                                !.forwarded = SubSeq(@, Len(session.forwarded) + 1,
                                                     Len(@))]
        /\ last' = [Call("response.audio.delta", response_id, NoArg, "None")
                        EXCEPT !.bytes_count = bytes_count]
        /\ UNCHANGED <<waiters, steps>>

NextPlayback ==
    \/ FunctionCallArgumentsDone
    \/ ResponseCreated
    \/ AudioDeltaChunk

SpecPlayback == Init /\ [][NextPlayback]_vars

\* A suspended coroutine is resumed by the event loop: the timeout of
\* asyncio.wait_for and the asyncio.sleep of a drain delay both expire.  No
\* inbound event and no outcome of the report task is assumed.
FairRouter ==
    /\ WF_vars(WaitReturns)
    /\ WF_vars(SummaryDrained)
    /\ WF_vars(GoodbyeDrained)

SpecRouterFair == SpecRouter /\ FairRouter

\* RealtimeBridge.send_tool_output: response.create only if no response is
\* in progress
bridge_send_tool_output(ss, call_id, response_in_progress) ==
    IF call_id = NoId
    THEN ss
    ELSE IF response_in_progress
    THEN send(ss, "conversation.item.create")
    ELSE send(send(ss, "conversation.item.create"), "response.create")

\* RealtimeBridge.handle_function_call for trigger_assessment with a reason:
\* the client is notified, the tool output sent, the report task launched
bridge_handle_function_call(s, ss, reason, call_id, response_in_progress) ==
    LET triggered == trigger_assessment(s, reason) IN
    IF triggered.ret = "True"
    THEN Pair(triggered.sm,
              [bridge_send_tool_output(send(ss, "assessment_triggered"),
                                       call_id, response_in_progress)
                  EXCEPT !.task = "pending"])
    ELSE Pair(triggered.sm, ss)

\* the desktop handler with every shape of the arguments
FunctionCallWithArguments ==
    \E arguments \in ArgumentPayloads, call_id \in CallIds :
        /\ Idle
        /\ RouterEvent("response.function_call_arguments.done", NoId,
                       arguments, "None",
                       handle_trigger_assessment(sm, session,
                                                 extract_reason(arguments),
                                                 call_id))

\* the web bridge with every shape of the arguments; an AttributeError
\* leaves handle_function_call and ends handle_openai_events
BridgeFunctionCall ==
    \E arguments \in ArgumentPayloads, call_id \in CallIds,
       response_in_progress \in BOOLEAN :
        /\ Idle
        /\ LET reason == bridge_extract_reason(arguments) IN
           IF reason = "AttributeError"
           THEN RouterEvent("handle_function_call", NoId, arguments,
                            "AttributeError",
                            Pair(sm, [session EXCEPT !.pc = "stopped"]))
           ELSE RouterEvent("handle_function_call", NoId, arguments, "None",
                            bridge_handle_function_call(
                                sm, session, reason, call_id,
                                response_in_progress))

NextArguments ==
    \/ FunctionCallWithArguments
    \/ BridgeFunctionCall
    \/ ResponseCreated

SpecArguments == Init /\ [][NextArguments]_vars

TypeOK ==
    /\ sm.current_state \in AssessmentState
    /\ sm.active_response_id \in ResponseIds \cup {NoId}
    /\ DOMAIN sm.response_trackers \subseteq ResponseIds
    /\ BagSize(waiters) <= MaxWaiters
    /\ \A w \in DOMAIN waiters :
          /\ waiters[w] > 0
          /\ w.audio_event = "tracker" => w.response_id \in DOMAIN sm.response_trackers


\* ================================================================== claims
Trackers == sm.response_trackers

TrackedIds == DOMAIN sm.response_trackers

\* the three fields the registration claims speak of
SameMachine(s1, s2) ==
    /\ s1.current_state = s2.current_state
    /\ s1.active_response_id = s2.active_response_id
    /\ s1.response_trackers = s2.response_trackers

\* C1: over every sequence of operations current_state never moves to an
\* earlier state of the order INACTIVE < TRIGGERED < ... < COMPLETE.
C1_NeverRegresses ==
    [][StateOrder(sm'.current_state) >= StateOrder(sm.current_state)]_vars

\* C2: trigger_assessment(reason) returns true exactly when current_state is
\* INACTIVE and then moves to TRIGGERED and stores the reason; in every
\* other state it returns false and leaves the state machine unchanged.
C2_TriggerOnlyFromInactive ==
    [][last'.op = "trigger_assessment" =>
          IF sm.current_state = INACTIVE
          THEN /\ last'.ret = "True"
               /\ sm' = [sm EXCEPT !.current_state = TRIGGERED,
                                   !.assessment_reason = last'.arg]
          ELSE /\ last'.ret = "False"
               /\ sm' = sm]_vars

\* a second trigger with another reason was rejected; the first reason is kept
C2_Witness ==
    /\ last.op = "trigger_assessment"
    /\ last.ret = "False"
    /\ sm.current_state = TRIGGERED
    /\ sm.assessment_reason \in Reasons
    /\ sm.assessment_reason # last.arg

\* C3: start_acknowledgment_response takes effect only in TRIGGERED, where
\* it creates a tracker for the id, makes it the active response and moves
\* to ACK_GENERATING; in any other state it is a no-op.
C3_AckOnlyFromTriggered ==
    [][last'.op = "start_acknowledgment_response" =>
          IF sm.current_state = TRIGGERED
          THEN /\ sm'.current_state = ACK_GENERATING
               /\ sm'.active_response_id = last'.response_id
               /\ last'.response_id \in DOMAIN sm'.response_trackers
               /\ sm'.response_trackers[last'.response_id] =
                      ResponseTracker(last'.response_id, ACK_GENERATING)
          ELSE SameMachine(sm, sm')]_vars

\* an ack registration with another id arrived in the ack phase and was ignored
C3_Witness ==
    /\ last.op = "start_acknowledgment_response"
    /\ sm.current_state = ACK_SPEAKING
    /\ sm.active_response_id # NoId
    /\ sm.active_response_id # last.response_id
    /\ last.response_id \notin TrackedIds

\* C4: start_summary_response is a no-op unless current_state is
\* REPORT_GENERATING, and start_goodbye_response is a no-op unless
\* current_state is SUMMARY_SENDING or SUMMARY_SPEAKING.
C4_RegistrationRejected ==
    [][/\ (last'.op = "start_summary_response"
              /\ sm.current_state # REPORT_GENERATING)
          => SameMachine(sm, sm')
       /\ (last'.op = "start_goodbye_response"
              /\ sm.current_state \notin {SUMMARY_SENDING, SUMMARY_SPEAKING})
          => SameMachine(sm, sm')]_vars

\* C5: mark_audio_started(response_id) advances current_state to the
\* matching *_SPEAKING state only when response_id is the active response;
\* for another registered response it sets only that tracker's
\* audio_started and leaves current_state alone.
C5_AdvanceOnlyForActive ==
    [][last'.op = "mark_audio_started" =>
          IF last'.response_id = sm.active_response_id
          THEN sm'.current_state =
                   (IF sm.current_state = ACK_GENERATING THEN ACK_SPEAKING
                    ELSE IF sm.current_state = SUMMARY_SENDING THEN SUMMARY_SPEAKING
                    ELSE IF sm.current_state = GOODBYE_SENDING THEN GOODBYE_SPEAKING
                    ELSE sm.current_state)
          ELSE sm'.current_state = sm.current_state]_vars

\* C6: for a response id without a tracker, mark_audio_started,
\* track_audio_bytes, mark_audio_complete and mark_response_complete leave
\* the whole state machine unchanged.
C6_UnknownIdIgnored ==
    [][(/\ last'.op \in {"mark_audio_started", "track_audio_bytes",
                         "mark_audio_complete", "mark_response_complete"}
        /\ last'.response_id \notin DOMAIN sm.response_trackers)
          => /\ sm' = sm
             /\ last'.ret = "None"]_vars

\* an audio chunk for an untracked id arrived while the active response had
\* not started speaking and another tracker had counted bytes
C6_Witness ==
    /\ last.op = "mark_audio_started"
    /\ last.response_id \notin TrackedIds
    /\ sm.current_state \in {ACK_GENERATING, SUMMARY_SENDING, GOODBYE_SENDING}
    /\ \E id \in TrackedIds : Trackers[id].audio_bytes_received > 0

\* C7: start_report_generation() returns true and moves to
\* REPORT_GENERATING iff current_state is ACK_GENERATING or ACK_SPEAKING
\* (the condition of can_proceed_to_report_generation()); otherwise it
\* returns false and changes nothing.
C7_ReportOnlyFromAck ==
    [][last'.op = "start_report_generation" =>
          /\ can_proceed_to_report_generation(sm)
                 <=> sm.current_state \in {ACK_GENERATING, ACK_SPEAKING}
          /\ IF sm.current_state \in {ACK_GENERATING, ACK_SPEAKING}
             THEN /\ last'.ret = "True"
                  /\ sm' = [sm EXCEPT !.current_state = REPORT_GENERATING]
             ELSE /\ last'.ret = "False"
                  /\ sm' = sm]_vars

\* start_report_generation was refused after the trigger, before any ack
\* response was registered
C7_Witness ==
    /\ last.op = "start_report_generation"
    /\ last.ret = "False"
    /\ sm.current_state = TRIGGERED

\* the tracker registered by start_acknowledgment_response has its audio complete
AckAudioComplete ==
    \E id \in TrackedIds :
        /\ Trackers[id].state = ACK_GENERATING
        /\ Trackers[id].audio_complete

C9_CanSendGoodbye ==
    can_send_goodbye(sm) <=>
        /\ sm.current_state \in {SUMMARY_SENDING, SUMMARY_SPEAKING}
        /\ \E id \in TrackedIds :
              /\ id = sm.active_response_id
              /\ Trackers[id].state = SUMMARY_SENDING
              /\ Trackers[id].audio_complete

\* the summary is being spoken, its response is done but its audio is not
C9_Witness ==
    /\ sm.current_state = SUMMARY_SPEAKING
    /\ sm.active_response_id \in TrackedIds
    /\ Trackers[sm.active_response_id].response_complete
    /\ ~Trackers[sm.active_response_id].audio_complete
    /\ ~can_send_goodbye(sm)

\* C10: mark_response_complete(response_id) sets only response_complete of
\* that response's tracker: current_state, active_response_id, every
\* audio_complete flag and every completion event are unchanged, and no
\* task suspended in wait_for_audio_complete becomes releasable.
C10_ResponseCompleteOnly ==
    [][last'.op = "mark_response_complete" =>
          /\ sm' = IF last'.response_id \in DOMAIN sm.response_trackers
                   THEN [sm EXCEPT !.response_trackers[last'.response_id]
                                        .response_complete = TRUE]
                   ELSE sm
          /\ waiters' = waiters
          /\ \A w \in DOMAIN waiters :
                EventIsSet(sm', w) <=> EventIsSet(sm, w)]_vars

\* the response of a tracker was marked complete while a task was suspended
\* on that tracker's audio; the task is still suspended and not releasable
C10_Witness ==
    /\ last.op = "mark_response_complete"
    /\ last.response_id \in TrackedIds
    /\ Trackers[last.response_id].response_complete
    /\ ~Trackers[last.response_id].audio_complete
    /\ \E w \in DOMAIN waiters :
          /\ w.response_id = last.response_id
          /\ w.audio_event = "tracker"
          /\ ~EventIsSet(sm, w)

\* C13: wait_for_audio_complete called with an id that has no tracker
\* returns false at once: the caller is not suspended and nothing of the
\* state machine changes.
C13_UnknownIdReturnsFalse ==
    [][(last'.op = "wait_for_audio_complete"
            /\ last'.response_id \notin DOMAIN sm.response_trackers) =>
          /\ last'.ret = "False"
          /\ waiters' = waiters
          /\ sm' = sm]_vars

\* the wait was called for an untracked id while another response was
\* tracked with its audio still incomplete
C13_Witness ==
    /\ last.op = "wait_for_audio_complete"
    /\ last.response_id \notin TrackedIds
    /\ last.ret = "False"
    /\ \E id \in TrackedIds : ~Trackers[id].audio_complete

\* C14: wait_for_audio_complete called after mark_audio_complete was
\* applied to the tracker returns true at once, without suspending.
C14_CompleteReturnsTrue ==
    [][(/\ last'.op = "wait_for_audio_complete"
        /\ last'.response_id \in DOMAIN sm.response_trackers
        /\ sm.response_trackers[last'.response_id].audio_complete) =>
          /\ last'.ret = "True"
          /\ waiters' = waiters
          /\ sm' = sm]_vars

\* the wait was called for a response whose audio was already complete
C14_Witness ==
    /\ last.op = "wait_for_audio_complete"
    /\ last.response_id \in TrackedIds
    /\ Trackers[last.response_id].audio_complete
    /\ last.ret = "True"

\* the calls suspended on the event of the tracker registered for the id
WaitingOn(ws, response_id) ==
    {w \in DOMAIN ws : w.response_id = response_id /\ w.audio_event = "tracker"}

\* C15: one call of mark_audio_complete(response_id) sets the event of
\* the tracker, so that every task suspended on it is released, and a
\* released task returns true.
C15_CompleteReleasesWaiters ==
    [][/\ last'.op = "mark_audio_complete" =>
            /\ waiters' = waiters
            /\ \A w \in WaitingOn(waiters, last'.response_id) :
                  EventIsSet(sm', w)
       /\ (last'.op = "wait_for_audio_complete.return"
               /\ \E w \in DOMAIN waiters :
                     /\ w.response_id = last'.response_id
                     /\ waiters' = BagRemove(waiters, w)
                     /\ EventIsSet(sm, w)) =>
            last'.ret = "True"]_vars

\* mark_audio_complete was called while two tasks were suspended on the
\* response; both are releasable
C15_Witness ==
    /\ last.op = "mark_audio_complete"
    /\ \E w \in WaitingOn(waiters, last.response_id) :
          /\ waiters[w] = 2
          /\ EventIsSet(sm, w)

\* C16: a wait whose tracker does not receive mark_audio_complete ends on
\* the timeout and returns false; the timeout changes neither
\* current_state, active_response_id nor any tracker.
C16_TimeoutReturnsFalse ==
    [][last'.op = "wait_for_audio_complete.return" =>
          /\ sm' = sm
          /\ \E w \in DOMAIN waiters :
                /\ w.response_id = last'.response_id
                /\ waiters' = BagRemove(waiters, w)
                /\ (last'.ret = "False" <=> ~EventIsSet(sm, w))]_vars

\* a wait timed out on a response whose audio is still not complete
C16_Witness ==
    /\ last.op = "wait_for_audio_complete.return"
    /\ last.ret = "False"
    /\ last.response_id \in TrackedIds
    /\ ~Trackers[last.response_id].audio_complete
    /\ ~Trackers[last.response_id].audio_event

\* C17: mark_audio_complete and mark_response_complete are idempotent: a
\* second call with the same id leaves the state machine as the first call
\* left it, and after mark_audio_complete the tracker has audio_complete
\* and its completion event set.
C17_MarksIdempotent ==
    [][/\ last'.op = "mark_audio_complete" =>
            /\ mark_audio_complete(sm', last'.response_id).sm = sm'
            /\ last'.response_id \in DOMAIN sm.response_trackers =>
                  /\ sm'.response_trackers[last'.response_id].audio_complete
                  /\ sm'.response_trackers[last'.response_id].audio_event
            /\ (last.op = "mark_audio_complete"
                    /\ last.response_id = last'.response_id) => sm' = sm
       /\ last'.op = "mark_response_complete" =>
            /\ mark_response_complete(sm', last'.response_id).sm = sm'
            /\ (last.op = "mark_response_complete"
                    /\ last.response_id = last'.response_id) => sm' = sm]_vars

\* both marks were applied to a tracked response, the response mark last
C17_Witness ==
    /\ last.op = "mark_response_complete"
    /\ last.response_id \in TrackedIds
    /\ Trackers[last.response_id].response_complete
    /\ Trackers[last.response_id].audio_complete
    /\ Trackers[last.response_id].audio_event

\* C18: a tracker's audio_bytes_received is the sum of the byte counts
\* passed to track_audio_bytes for its id since it was registered (a
\* registration starts at 0, each call adds its count, nothing else changes
\* it), and calculate_audio_duration() is audio_bytes_received / 48000
\* (2 for 96000 bytes, 0 for 0 bytes).
C18_BytesAndDuration ==
    [][/\ \A id \in DOMAIN sm'.response_trackers :
            LET before == IF id \in DOMAIN sm.response_trackers
                          THEN sm.response_trackers[id].audio_bytes_received
                          ELSE 0
                after == sm'.response_trackers[id].audio_bytes_received
                duration == calculate_audio_duration(sm'.response_trackers[id])
            IN /\ after =
                    IF last'.op = "track_audio_bytes" /\ last'.response_id = id
                    THEN before + last'.bytes_count
                    ELSE IF /\ last'.op \in {"start_acknowledgment_response",
                                             "start_summary_response",
                                             "start_goodbye_response"}
                            /\ last'.response_id = id
                            /\ sm'.response_trackers[id].state = sm'.current_state
                            /\ sm'.current_state # sm.current_state
                    THEN 0
                    ELSE before
               /\ duration.num * 48000 = after * duration.den
               /\ after = 96000 => duration = [num |-> 2, den |-> 1]
               /\ after = 0 => duration = [num |-> 0, den |-> 1]]_vars

\* two chunks of 48000 bytes were counted for a response: 96000 bytes, two
\* seconds
C18_Witness ==
    /\ last.op = "track_audio_bytes"
    /\ last.bytes_count = 48000
    /\ last.response_id \in TrackedIds
    /\ Trackers[last.response_id].audio_bytes_received = 96000
    /\ calculate_audio_duration(Trackers[last.response_id]) = [num |-> 2, den |-> 1]

\* the state after each call of HappyPath
HappyStates ==
    << TRIGGERED, ACK_GENERATING, ACK_SPEAKING, ACK_SPEAKING,
       REPORT_GENERATING, SUMMARY_SENDING, SUMMARY_SPEAKING, SUMMARY_SPEAKING,
       GOODBYE_SENDING, GOODBYE_SPEAKING, GOODBYE_SPEAKING, COMPLETE >>

\* C12: the happy-path sequence (trigger; ack r1, its audio chunk and
\* transcript-done; start_report_generation; summary r2, chunk, done;
\* goodbye r3, chunk, done; mark_complete) passes through TRIGGERED,
\* ACK_GENERATING, ACK_SPEAKING, REPORT_GENERATING, SUMMARY_SENDING,
\* SUMMARY_SPEAKING, GOODBYE_SENDING, GOODBYE_SPEAKING, COMPLETE in that
\* order; start_report_generation returns true, can_send_goodbye() is true
\* once r2's audio is complete and is_complete() is true at the end.
C12_HappyPath ==
    /\ steps = 0 => sm.current_state = INACTIVE
    /\ steps >= 1 => sm.current_state = HappyStates[steps]
    /\ steps = 5 => last.ret = "True"
    /\ steps = 8 => can_send_goodbye(sm)
    /\ steps = 12 => is_complete(sm)

\* the whole sequence was run
C12_Witness ==
    /\ steps = Len(HappyPath)
    /\ is_complete(sm)
    /\ DOMAIN sm.response_trackers = ScenarioIds

\* C11: COMPLETE is terminal for a session driven through the event
\* router: once current_state is COMPLETE no inbound event, of any type
\* and with any response id, and no step of a coroutine changes it.
C11_CompleteIsTerminal ==
    [][sm.current_state = COMPLETE => sm'.current_state = COMPLETE]_vars

\* after the delivery completed a function call asked for another trigger
C11_Witness ==
    /\ sm.current_state = COMPLETE
    /\ last.op = "response.function_call_arguments.done"

\* the wait of the response.done handler for a registered response ended
\* on its timeout
WaitTimesOut ==
    /\ session.pc = "wait"
    /\ session'.pc # "wait"
    /\ ~sm.response_trackers[session.response_id].audio_event

\* C19: when the wait of a response-done handled in ACK_GENERATING or
\* ACK_SPEAKING times out, the orchestrator proceeds: start_report_generation
\* is called and succeeds, the report task is launched and the phase is
\* REPORT_GENERATING (COMPLETE if the user has acknowledged meanwhile).
C19_AckTimeoutProceeds ==
    [][(WaitTimesOut /\ sm.current_state \in {ACK_GENERATING, ACK_SPEAKING}) =>
          /\ session'.task = "pending"
          /\ sm'.current_state \in {REPORT_GENERATING, COMPLETE}]_vars

\* C20: when the wait of a response-done handled in SUMMARY_SENDING or
\* SUMMARY_SPEAKING timed out, the handler still sends the goodbye request
\* before it returns.
C20_SummaryTimeoutSendsGoodbye ==
    [][(/\ \/ WaitTimesOut /\ sm.current_state \in {SUMMARY_SENDING, SUMMARY_SPEAKING}
           \/ /\ session.pc = "summary_sleep"
              /\ session.response_id \in DOMAIN sm.response_trackers
              /\ ~session.audio_ok
        /\ session'.pc = "idle") =>
          session'.goodbye_requests = session.goodbye_requests + 1]_vars

\* the response.done handler is suspended in _handle_goodbye_complete
InGoodbyeHandler ==
    /\ sm.current_state \in {GOODBYE_SENDING, GOODBYE_SPEAKING}
    /\ session.pc \in {"wait", "goodbye_sleep"}

SessionEnded ==
    /\ is_complete(sm)
    /\ session.should_end_session
    /\ ~session.is_running

\* C21: whenever a response-done event is handled in GOODBYE_SENDING or
\* GOODBYE_SPEAKING, the handler eventually calls mark_complete and sets
\* should_end_session = true and is_running = false, whether the goodbye
\* audio was complete or the wait timed out.
C21_GoodbyeDoneEndsSession ==
    InGoodbyeHandler ~> SessionEnded

\* the goodbye handler has just finished after a wait that timed out
C21_Witness ==
    /\ last.op = "_handle_goodbye_complete.sleep"
    /\ last.response_id \in TrackedIds
    /\ ~Trackers[last.response_id].audio_complete
    /\ SessionEnded


UserAcknowledges ==
    /\ last'.op = "conversation.item.input_audio_transcription.completed"
    /\ last'.arg = "acknowledgment"
    /\ sm.current_state \notin {INACTIVE, COMPLETE}

\* C22: handling a user transcription that matches an acknowledgment
\* keyword while the assessment is active and not complete moves the state
\* machine to COMPLETE and signals session termination in that same step
C22_AcknowledgmentCompletes ==
    [][UserAcknowledges =>
          /\ sm'.current_state = COMPLETE
          /\ session'.should_end_session]_vars

TranscriptDoneBuffered ==
    \E i \in DOMAIN session.queued :
        session.queued[i] = InboundEvent("response.audio_transcript.done",
                                         session.response_id, NoArg)

\* C23: when response.done is handled first and the audio transcript done
\* event of the same response is received while the orchestrator waits,
\* that wait_for_audio_complete returns True
C23_BufferedCompletionObserved ==
    [][(/\ session.pc = "wait"
        /\ TranscriptDoneBuffered
        /\ last'.op = "wait_for_audio_complete.return")
          => last'.ret = "True"]_vars

\* C24: the event loop is not blocked by a wait or a drain sleep of the
\* orchestrator: whenever a received event is in the buffer, the loop can
\* take it and dispatch it
C24_LoopNeverBlocked ==
    session.queued # << >> => ENABLED DispatchQueued

SummaryTrackers ==
    {id \in TrackedIds : Trackers[id].state = SUMMARY_SENDING}

ReportFailed ==
    /\ session.task = "failed"
    /\ sm.verbal_summary = ""
    /\ session.summary_requests = 0
    /\ SummaryTrackers = {}
    /\ sm.current_state \in
           (IF session.user_acknowledged_report
            THEN {REPORT_GENERATING, COMPLETE}
            ELSE {REPORT_GENERATING})

\* C25: when report generation fails after start_report_generation
\* succeeded, the failure stays inside the background task: the phase stays
\* REPORT_GENERATING (only the user's early exit completes it), the task is
\* not retried, no summary is stored or requested, no summary tracker is
\* ever created, and the router handles the events that follow
C25_FailedReportStaysStuck ==
    [][/\ session'.task = "failed" => ReportFailed'
       /\ session.task = "failed" => session'.task = "failed"]_vars

C25_Witness ==
    /\ ReportFailed
    /\ sm.current_state = REPORT_GENERATING
    /\ last.op = "response.created"
    /\ last.response_id \in ResponseIds
    /\ last.response_id = session.current_response_id

\* C26: when report generation fails, the failing task emits an error
\* notification to the session and then a response.create that carries the
\* spoken apology
C26_FailureNotifiesAndApologises ==
    [][(session.task = "pending" /\ session'.task = "failed")
          => session'.sent = <<"error", "response.create">>]_vars

\* C27: once the end of the session has been signalled, a report task
\* that is still in flight is cancelled: it stores no summary and emits no
\* outbound message
C27_EndedSessionTaskSilent ==
    [][(session.should_end_session /\ session.task = "pending")
          => /\ session'.task \in {"pending", "cancelled"}
             /\ session'.summary_requests = session.summary_requests
             /\ sm'.verbal_summary = sm.verbal_summary]_vars

\* C28: a response.created event in REPORT_GENERATING registers the
\* response as the summary response only if verbal_summary is non-empty;
\* while it is empty the event changes neither current_state,
\* active_response_id nor the trackers, and no summary tracker exists
\* before the verbal summary does
C28_SummaryNeedsVerbalSummary ==
    [][/\ (last'.op = "response.created" /\ sm.current_state = REPORT_GENERATING)
          => IF sm.verbal_summary # "" /\ last'.response_id # NoId
             THEN /\ sm'.current_state = SUMMARY_SENDING
                  /\ sm'.active_response_id = last'.response_id
                  /\ last'.response_id \in DOMAIN sm'.response_trackers
             ELSE SameMachine(sm', sm)
       /\ sm'.verbal_summary = "" => SummaryTrackers' = {}]_vars

C28_Witness ==
    /\ last.op = "response.created"
    /\ last.response_id \in ResponseIds
    /\ session.current_response_id = last.response_id
    /\ sm.current_state = REPORT_GENERATING
    /\ sm.verbal_summary = ""
    /\ session.task = "pending"
    /\ sm.active_response_id # last.response_id

TriggerCall ==
    last'.op = "response.function_call_arguments.done"

\* C29: every trigger_assessment function call that makes
\* trigger_assessment() succeed emits exactly input_audio_buffer.clear, the
\* function_call_output item and response.create, in this order, with or
\* without a call id in the event
C29_TriggerEmitsThreeMessages ==
    [][(TriggerCall /\ sm.current_state = INACTIVE)
          => session'.sent = <<"input_audio_buffer.clear",
                               "conversation.item.create",
                               "response.create">>]_vars

\* C30: a trigger_assessment function call received when the state machine
\* is not INACTIVE emits no outbound message and leaves the state machine
\* as it was
C30_DuplicateTriggerIsSilent ==
    [][(TriggerCall /\ sm.current_state # INACTIVE)
          => /\ session'.sent = << >>
             /\ sm' = sm]_vars

C30_Witness ==
    /\ last.op = "response.function_call_arguments.done"
    /\ last.arg = "call_1"
    /\ sm.current_state \notin {INACTIVE, TRIGGERED}
    /\ session.sent = << >>

ReportTaskRuns ==
    /\ session.task = "pending"
    /\ session'.task \in {"done", "failed"}

\* C31: the conversation history grows only while current_state is
\* INACTIVE: once the assessment is triggered no event appends a turn and
\* the state never returns to INACTIVE, so the history that report
\* generation receives is the history at the trigger
C31_HistoryFrozenAfterTrigger ==
    [][/\ sm.current_state # INACTIVE
          => /\ session'.conversation_history = session.conversation_history
             /\ sm'.current_state # INACTIVE
       /\ session'.conversation_history >= session.conversation_history
       /\ ReportTaskRuns
          => session'.report_history = session.conversation_history]_vars

C31_Witness ==
    /\ session.task = "done"
    /\ session.report_history = MaxTurns
    /\ session.conversation_history = MaxTurns
    /\ last.op = "conversation.item.input_audio_transcription.completed"
    /\ last.arg = "other"

\* C32: every audio chunk forwarded to playback has an even length: a
\* decoded payload of odd length n is forwarded as n + 1 bytes, one of even
\* length unchanged, and a payload that cannot be decoded is dropped
\* without an error reaching the router
C32_ForwardedChunksEven ==
    [][last'.op = "response.audio.delta" =>
          LET n == last'.bytes_count IN
          /\ \A i \in DOMAIN session'.forwarded : session'.forwarded[i] % 2 = 0
          /\ session'.forwarded =
                 IF n = Malformed THEN << >>
                 ELSE IF n % 2 = 1 THEN <<n + 1>>
                 ELSE <<n>>]_vars

C32_Witness ==
    /\ last.op = "response.audio.delta"
    /\ last.bytes_count = 7
    /\ session.forwarded = <<8>>
    /\ last.response_id \in TrackedIds
    /\ Trackers[last.response_id].audio_bytes_received = 7

ExpectedReason(arguments) ==
    IF arguments.encodes = "dict" /\ arguments.reason # NoArg
    THEN arguments.reason
    ELSE DefaultReason

\* C33: for every shape of the trigger_assessment arguments (an object
\* with or without a reason, a string encoding such an object, a string
\* encoding a non-object value, an unparseable string) handling the event
\* raises no error and triggers with the given reason, or with
\* "Linguistic ceiling reached" when none is given
C33_ArgumentsNeverRaise ==
    [][last'.op \in {"response.function_call_arguments.done",
                     "handle_function_call"}
          => /\ last'.ret = "None"
             /\ sm.current_state = INACTIVE
                => /\ sm'.current_state = TRIGGERED
                   /\ sm'.assessment_reason = ExpectedReason(last'.arg)]_vars

\* C34: an inbound error event or item-creation-failed event is only
\* logged: the state machine and the termination flags stay as they were
\* and the loop is ready for the next event
C34_ErrorEventOnlyLogged ==
    [][last'.op \in ErrorTypes =>
          /\ sm' = sm
          /\ session'.should_end_session = session.should_end_session
          /\ session'.is_running = session.is_running
          /\ session'.user_acknowledged_report = session.user_acknowledged_report
          /\ session'.task = session.task
          /\ session'.sent = << >>
          /\ session'.pc = "idle"]_vars

C34_Witness ==
    /\ last.op = "conversation.item.creation_failed"
    /\ sm.current_state = SUMMARY_SPEAKING
    /\ TrackedIds # {}
    /\ session.is_running
    /\ ~session.should_end_session

AckAudioAlreadyComplete ==
    /\ sm.active_response_id \in TrackedIds
    /\ Trackers[sm.active_response_id].state = ACK_GENERATING
    /\ Trackers[sm.active_response_id].audio_complete

\* C35: after trigger, registration of the acknowledgment response,
\* mark_audio_complete on it and a successful start_report_generation,
\* can_send_summary returns False
C35_SummaryBlockedAfterReportStart ==
    [][(/\ last'.op = "start_report_generation"
        /\ last'.ret = "True"
        /\ AckAudioAlreadyComplete)
          => ~can_send_summary(sm')]_vars

\* the response id the response.done handler is working for in this step
HandledDoneId ==
    IF last'.op = "response.done" THEN last'.response_id ELSE session.response_id

ForeignResponseDoneStep ==
    /\ last'.op \in {"response.done", "wait_for_audio_complete.return",
                     "_handle_summary_complete.sleep",
                     "_handle_goodbye_complete.sleep"}
    /\ HandledDoneId \in ResponseIds
    /\ HandledDoneId # sm.active_response_id
    /\ sm.current_state \in {ACK_GENERATING, ACK_SPEAKING,
                             SUMMARY_SENDING, SUMMARY_SPEAKING,
                             GOODBYE_SENDING, GOODBYE_SPEAKING}
    /\ ~session.user_acknowledged_report

\* C36: a response.done whose response id is not the one registered for
\* the current phase drives no choreography step: it starts no report
\* generation, sends no goodbye and does not complete the session
C36_ForeignResponseDoneIgnored ==
    [][ForeignResponseDoneStep =>
          /\ sm'.current_state = sm.current_state
          /\ session'.task = session.task
          /\ session'.goodbye_requests = session.goodbye_requests
          /\ session'.should_end_session = session.should_end_session]_vars

SummaryAudioComplete ==
    /\ sm.current_state \in {SUMMARY_SENDING, SUMMARY_SPEAKING}
    /\ sm.active_response_id \in TrackedIds
    /\ Trackers[sm.active_response_id].state = SUMMARY_SENDING
    /\ Trackers[sm.active_response_id].audio_complete

GoodbyeRequested ==
    session'.goodbye_requests > session.goodbye_requests

GoodbyeRegistered ==
    /\ sm'.current_state = GOODBYE_SENDING
    /\ sm.current_state # GOODBYE_SENDING

\* C37: the goodbye response.create is emitted, and a response is
\* registered as the goodbye response, only in states where the summary
\* response's tracker has audio_complete set
C37_GoodbyeNeedsSummaryAudio ==
    [][(GoodbyeRequested \/ GoodbyeRegistered) => SummaryAudioComplete]_vars

C37_Witness ==
    /\ last.op = "_handle_summary_complete.sleep"
    /\ session.sent = <<"response.create">>
    /\ session.goodbye_requests = 1
    /\ SummaryAudioComplete

ReportLaunched ==
    /\ sm'.current_state = REPORT_GENERATING
    /\ sm.current_state # REPORT_GENERATING

\* C38: in one session the background report task is launched at most
\* once and runs at most once, and at most one summary response.create is
\* emitted, whatever the order and multiplicity of the inbound events
C38_ReportTaskAtMostOnce ==
    [][/\ ReportLaunched
          => /\ session.task = "none"
             /\ session'.task = "pending"
       /\ session.task = "pending"
          => session'.task \in {"pending", "done", "failed"}
       /\ session.task \in {"done", "failed"}
          => /\ session'.task = session.task
             /\ session'.summary_requests = session.summary_requests
       /\ session'.summary_requests <= 1]_vars

C38_Witness ==
    /\ session.task = "done"
    /\ session.summary_requests = 1
    /\ sm.current_state = REPORT_GENERATING
    /\ last.op = "response.function_call_arguments.done"

\* C39: in one session at most one goodbye response.create is emitted,
\* whatever the order and multiplicity of the inbound events
C39_AtMostOneGoodbye ==
    session.goodbye_requests <= 1

Registered ==
    \/ last'.op = "start_acknowledgment_response" /\ sm.current_state = TRIGGERED
    \/ last'.op \in {"start_summary_response", "start_goodbye_response"}

\* C40: active_response_id is always unset or the id of a tracker in
\* response_trackers; every successful registration makes the registered
\* id the active one, and its tracker records the state that the
\* registration entered (ACK_GENERATING, SUMMARY_SENDING, GOODBYE_SENDING)
C40_ActiveResponseTracked ==
    [][/\ sm'.active_response_id = NoId
          \/ sm'.active_response_id \in DOMAIN sm'.response_trackers
       /\ Registered
          => /\ sm'.active_response_id = last'.response_id
             /\ last'.response_id \in DOMAIN sm'.response_trackers
             /\ sm'.response_trackers[last'.response_id].state = sm'.current_state
             /\ sm'.current_state =
                    CASE last'.op = "start_acknowledgment_response" -> ACK_GENERATING
                      [] last'.op = "start_summary_response" -> SUMMARY_SENDING
                      [] OTHER -> GOODBYE_SENDING]_vars

C40_Witness ==
    /\ last.op = "start_goodbye_response"
    /\ sm.active_response_id = last.response_id
    /\ Trackers[last.response_id].state = GOODBYE_SENDING
    /\ Cardinality(TrackedIds) = 2
    /\ \E id \in TrackedIds : Trackers[id].state = ACK_GENERATING

====
